---- MODULE Spec2Model ----
(***************************************************************************)
(* Model of src/policy.py: the PolicyWithQs parameter manager (gradient    *)
(* dispatch, delayed Polyak target updates, weight snapshots, checkpoints) *)
(* and the compute_neglogp guards of PolicyWithQs and PolicyWithValue.     *)
(*                                                                         *)
(* A network (MLPNet) is the ordered list of its trainable tensors; every  *)
(* tensor is abstracted to one integer.  The Polyak coefficient tau is the *)
(* rational tau[1]/tau[2].  Python indices are 0-based, the sequences of   *)
(* this module 1-based: models[i] of the code is model index i+1 here.     *)
(***************************************************************************)
EXTENDS Integers, Sequences, FiniteSets, TLC

VARIABLES
    args,           \* configuration bundle: Q_num, tau, delay_update, log_alpha
    policy,         \* self.policy          (tensors of the policy network)
    policy_target,  \* self.policy_target
    Qs,             \* self.Qs              (tuple of Q networks)
    Q_targets,      \* self.Q_targets
    log_alpha,      \* self.log_alpha       (value of the scalar)
    optimizers,     \* self.optimizers      (aligned with self.models)
    ckpts,          \* checkpoints on disk, keyed by iteration
    held,           \* the value a caller holds from its last get_weights()
    last,           \* the last call: operation, inputs, state before, outcome
    steps,          \* number of apply_gradients calls made so far
    calls           \* number of calls made so far

vars == <<args, policy, policy_target, Qs, Q_targets, log_alpha, optimizers,
          ckpts, held, last, steps, calls>>

-----------------------------------------------------------------------------
(* Bounds of the model *)

MaxQNum == 2          \* Q_num ranges over 1..MaxQNum
NumTensors == 2       \* trainable tensors of one MLPNet
MaxDelay == 2         \* delay_update ranges over 1..MaxDelay
MaxIter == 1          \* iteration arguments range over 0..MaxIter
MaxUpdatedSteps == 2  \* apply_gradients calls in one run
MaxCalls == 3         \* calls of any kind in one run

Taus == {<<1, 2>>, <<1, 1>>}     \* tau = 0.5 and tau = 1.0
InitVals == {0, 4}               \* values a fresh tensor may be initialised to
LogAlphaModes == {"auto", "fixed"}
NonFinite == {"nan", "inf"}
BatchRows == {1, 2}
LogitCols == {1, 2}

Min(a, b) == IF a < b THEN a ELSE b

-----------------------------------------------------------------------------
(* Python list slicing and zip *)

\* s[a:b] for 0 <= a <= b: indices past the end are clipped, never an error
PySlice(s, a, b) == SubSeq(s, Min(a, Len(s)) + 1, Min(b, Len(s)))

\* flatten a sequence of sequences (tf.nest.flatten of a list of lists)
RECURSIVE Flatten(_)
Flatten(ss) == IF ss = <<>> THEN <<>> ELSE Head(ss) \o Flatten(Tail(ss))

-----------------------------------------------------------------------------
(* The optimizer (Adam) as the code uses it: a step counter and one slot   *)
(* per variable.  A step accumulates the gradient into the slot and moves  *)
(* the variable against the slot, so the result depends on the optimizer's *)
(* internal state.                                                         *)

NewOptimizer(n) == [iterations |-> 0, m |-> [k \in 1..n |-> 0]]

\* optimizer.apply_gradients(zip(gs, ws)): zip stops at the shorter list,
\* and an empty list of pairs is a no-op
OptApply(opt, gs, ws) ==
    LET n == Min(Len(gs), Len(ws))
        m2 == [k \in 1..Len(opt.m) |-> IF k <= n THEN opt.m[k] + gs[k] ELSE opt.m[k]]
    IN  IF n = 0
        THEN [opt |-> opt, weights |-> ws]
        ELSE [opt |-> [iterations |-> opt.iterations + 1, m |-> m2],
              weights |-> [k \in 1..Len(ws) |-> IF k <= n THEN ws[k] - m2[k] ELSE ws[k]]]

-----------------------------------------------------------------------------
(* The object state as one record *)

Cur == [policy |-> policy, policy_target |-> policy_target, Qs |-> Qs,
        Q_targets |-> Q_targets, log_alpha |-> log_alpha, optimizers |-> optimizers]

\* len(self.models): Qs + (policy, log_alpha) or Qs + (policy,)
NumModels(a) == IF a.log_alpha = "auto" THEN a.Q_num + 2 ELSE a.Q_num + 1

\* hasattr(model, 'trainable_weights'): the networks have it, the scalar has not
IsNet(a, j) == j <= a.Q_num + 1

\* model.trainable_weights, or [model] for the scalar
WeightsOf(S, a, j) ==
    IF j <= a.Q_num THEN S.Qs[j]
    ELSE IF j = a.Q_num + 1 THEN S.policy
    ELSE <<S.log_alpha>>

SetWeightsOf(S, a, j, w) ==
    IF j <= a.Q_num THEN [S EXCEPT !.Qs[j] = w]
    ELSE IF j = a.Q_num + 1 THEN [S EXCEPT !.policy = w]
    ELSE [S EXCEPT !.log_alpha = w[1]]

\* the trainable_weights property
trainable_weights(S, a) == Flatten([j \in 1..NumModels(a) |-> WeightsOf(S, a, j)])

\* the optimizers' slots in the same flattened order
FlatSlots(S, a) == Flatten([j \in 1..NumModels(a) |-> S.optimizers[j].m])

-----------------------------------------------------------------------------
(* Polyak averaging and the two target updates *)

\* tau * source + (1.0 - tau) * target on one tensor
Polyak(tau, source, target) ==
    (tau[1] * source + (tau[2] - tau[1]) * target) \div tau[2]

PolyakAll(tau, source_params, target_params) ==
    [k \in 1..Min(Len(source_params), Len(target_params)) |->
        Polyak(tau, source_params[k], target_params[k])]

update_Q_targets(S, a) ==
    [S EXCEPT !.Q_targets =
        [i \in 1..Min(Len(S.Qs), Len(S.Q_targets)) |->
            PolyakAll(a.tau, S.Qs[i], S.Q_targets[i])]]

\* the blend is assigned to self.policy; self.policy_target is not written
update_policy_target(S, a) ==
    [S EXCEPT !.policy = PolyakAll(a.tau, S.policy, S.policy_target)]

-----------------------------------------------------------------------------
(* apply_gradients *)

\* the delay condition dropped
DelayDue_always(iteration, a) == TRUE

DelayDue(iteration, a) == iteration % a.delay_update = 0

\* the offset of the policy slice computed without the factor Q_num
gradi_start0_one(S, a) == Len(WeightsOf(S, a, 1))

\* gradi_start = len(self.models[0].trainable_weights) * self.args.Q_num
gradi_start0(S, a) == Len(WeightsOf(S, a, 1)) * a.Q_num

\* for i in range(Q_num): optimizers[i] steps models[i] with
\* grads[i*len_weights:(i+1)*len_weights]
RECURSIVE QLoop(_, _, _, _)
QLoop(S, a, grads, j) ==
    IF j > a.Q_num THEN S
    ELSE LET weights == WeightsOf(S, a, j)
             len_weights == Len(weights)
             r == OptApply(S.optimizers[j],
                           PySlice(grads, (j - 1) * len_weights, j * len_weights),
                           weights)
             S2 == [SetWeightsOf(S, a, j, r.weights) EXCEPT !.optimizers[j] = r.opt]
         IN  QLoop(S2, a, grads, j + 1)

\* for i in range(Q_num, len(models)): the policy, then log_alpha
RECURSIVE DelayedLoop(_, _, _, _, _)
DelayedLoop(S, a, grads, j, gradi_start) ==
    IF j > NumModels(a) THEN S
    ELSE LET weights == WeightsOf(S, a, j)
             gradi_end == gradi_start + Len(weights)
             r == OptApply(S.optimizers[j], PySlice(grads, gradi_start, gradi_end), weights)
             S2 == [SetWeightsOf(S, a, j, r.weights) EXCEPT !.optimizers[j] = r.opt]
         IN  DelayedLoop(S2, a, grads, j + 1, gradi_end)

\* the target update run on the Q groups as they were before the step
apply_gradients_stale(S, a, iteration, grads) ==
    LET S1 == QLoop(S, a, grads, 1)
    IN  IF DelayDue(iteration, a)
        THEN LET S2 == DelayedLoop(S1, a, grads, a.Q_num + 1, gradi_start0(S1, a))
                 T  == update_Q_targets(S, a)
             IN  [update_policy_target(S2, a) EXCEPT !.Q_targets = T.Q_targets]
        ELSE S1

apply_gradients(S, a, iteration, grads) ==
    LET S1 == QLoop(S, a, grads, 1)
    IN  IF DelayDue(iteration, a)
        THEN LET S2 == DelayedLoop(S1, a, grads, a.Q_num + 1, gradi_start0(S1, a))
             IN  update_Q_targets(update_policy_target(S2, a), a)
        ELSE S1

-----------------------------------------------------------------------------
(* Construction *)

NoSnapshot == [w |-> <<>>, at |-> <<>>]

Call(op, iteration, grads, raised, logits) ==
    [op |-> op, iteration |-> iteration, grads |-> grads, pre |-> Cur,
     raised |-> raised, logits |-> logits]

NoLogits == [r \in BatchRows |-> [c \in LogitCols |-> "finite"]]

\* a freshly constructed MLPNet: its initialiser draws the tensors
FreshNets == {[k \in 1..NumTensors |-> v] : v \in InitVals}

\* the freshly constructed Q networks: one draw per ensemble, and the
\* networks of one ensemble differ from each other
FreshQs(Q_num) == {[i \in 1..Q_num |-> [k \in 1..NumTensors |-> v + i]] : v \in InitVals}

Init ==
    /\ args \in [Q_num : 1..MaxQNum, tau : Taus, delay_update : 1..MaxDelay,
                 log_alpha : LogAlphaModes]
    /\ policy \in FreshNets
    /\ policy_target \in FreshNets
    /\ Qs \in FreshQs(args.Q_num)
    /\ Q_targets = Qs     \* Q_target.set_weights(Q.get_weights()) for every pair
    /\ log_alpha = 0
    /\ optimizers = [j \in 1..NumModels(args) |->
                        NewOptimizer(IF IsNet(args, j) THEN NumTensors ELSE 1)]
    /\ ckpts = [it \in 0..MaxIter |-> [entries |-> <<>>, at |-> <<>>]]
    /\ held = NoSnapshot
    /\ last = [op |-> "__init__", iteration |-> 0, grads |-> <<>>, pre |-> <<>>,
               raised |-> "none", logits |-> NoLogits]
    /\ steps = 0
    /\ calls = 0

Install(S) ==
    /\ policy' = S.policy
    /\ policy_target' = S.policy_target
    /\ Qs' = S.Qs
    /\ Q_targets' = S.Q_targets
    /\ log_alpha' = S.log_alpha
    /\ optimizers' = S.optimizers

\* gradient vectors a learner sends: entry k carries the value k, and the
\* vector is one short, exact or one long
GradVectors == {[k \in 1..n |-> k] :
                  n \in {Len(trainable_weights(Cur, args)) + d : d \in {-1, 0, 1}}}

Call_apply_gradients ==
    /\ calls < MaxCalls
    /\ steps < MaxUpdatedSteps
    /\ \E iteration \in 0..MaxIter, grads \in GradVectors :
          /\ Install(apply_gradients(Cur, args, iteration, grads))
          /\ last' = Call("apply_gradients", iteration, grads, "none", NoLogits)
    /\ steps' = steps + 1
    /\ calls' = calls + 1
    /\ UNCHANGED <<args, ckpts, held>>

Call_update_Q_targets ==
    /\ calls < MaxCalls
    /\ Install(update_Q_targets(Cur, args))
    /\ last' = Call("update_Q_targets", 0, <<>>, "none", NoLogits)
    /\ calls' = calls + 1
    /\ UNCHANGED <<args, ckpts, held, steps>>

Call_update_policy_target ==
    /\ calls < MaxCalls
    /\ Install(update_policy_target(Cur, args))
    /\ last' = Call("update_policy_target", 0, <<>>, "none", NoLogits)
    /\ calls' = calls + 1
    /\ UNCHANGED <<args, ckpts, held, steps>>

-----------------------------------------------------------------------------
(* get_weights / set_weights *)

\* [model.get_weights() if hasattr(model, 'get_weights') else model
\*  for model in self.models]: a network gives a copy of its values, the
\* scalar log_alpha is put into the list as the variable object itself
get_weights(S, a) ==
    [j \in 1..NumModels(a) |->
        IF IsNet(a, j) THEN [kind |-> "values", v |-> WeightsOf(S, a, j)]
        ELSE [kind |-> "variable", v |-> <<>>]]

\* the values an entry of a returned list denotes when it is read in state S
EntryValue(S, a, e) == IF e.kind = "variable" THEN <<S.log_alpha>> ELSE e.v

\* for i, weight in enumerate(weights): models[i].set_weights(weight), or
\* models[i].assign(weight) for the scalar
RECURSIVE SetLoop(_, _, _, _)
SetLoop(S, a, weights, j) ==
    IF j > Len(weights) THEN S
    ELSE SetLoop(SetWeightsOf(S, a, j, EntryValue(S, a, weights[j])), a, weights, j + 1)

set_weights(S, a, weights) == SetLoop(S, a, weights, 1)

Call_get_weights ==
    /\ calls < MaxCalls
    /\ held' = [w |-> get_weights(Cur, args), at |-> Cur]
    /\ last' = Call("get_weights", 0, <<>>, "none", NoLogits)
    /\ calls' = calls + 1
    /\ UNCHANGED <<args, policy, policy_target, Qs, Q_targets, log_alpha, optimizers,
                   ckpts, steps>>

Call_set_weights ==
    /\ calls < MaxCalls
    /\ held.w # <<>>
    /\ Install(set_weights(Cur, args, held.w))
    /\ last' = Call("set_weights", 0, <<>>, "none", NoLogits)
    /\ calls' = calls + 1
    /\ UNCHANGED <<args, ckpts, held, steps>>

-----------------------------------------------------------------------------
(* save_weights / load_weights.  The checkpoint written under             *)
(* save_dir + '/ckpt_ite' + str(iteration) is found again under the same   *)
(* iteration.                                                              *)

\* model.name: 'Q' + str(i), 'policy', and the variable's name 'log_alpha:0'
ModelName(a, j) ==
    IF j <= a.Q_num THEN "Q" \o ToString(j - 1)
    ELSE IF j = a.Q_num + 1 THEN "policy"
    ELSE "log_alpha:0"

\* optimizer._name: the Q optimizers are built without a name and carry
\* Adam's default, the other two are named
OptimizerName(a, j) ==
    IF j <= a.Q_num THEN "Adam"
    ELSE IF j = a.Q_num + 1 THEN "policy_adam_opt"
    ELSE "log_alpha_adam_opt"

model_pairs(a) == [j \in 1..NumModels(a) |-> <<ModelName(a, j), [kind |-> "model", j |-> j]>>]

optimizer_pairs(a) ==
    [j \in 1..NumModels(a) |-> <<OptimizerName(a, j), [kind |-> "optimizer", j |-> j]>>]

\* dict(pairs): a later pair with the same key replaces the earlier one
Dict(pairs) ==
    [n \in {pairs[i][1] : i \in DOMAIN pairs} |->
        LET i == CHOOSE i \in DOMAIN pairs :
                    /\ pairs[i][1] = n
                    /\ \A i2 \in DOMAIN pairs : pairs[i2][1] = n => i2 <= i
        IN  pairs[i][2]]

\* the objects tf.train.Checkpoint(**dict(model_pairs + optimizer_pairs)) tracks
Tracked(a) == Dict(model_pairs(a) \o optimizer_pairs(a))

SavedValue(S, a, obj) ==
    IF obj.kind = "model"
    THEN [w |-> WeightsOf(S, a, obj.j), iterations |-> 0, m |-> <<>>]
    ELSE [w |-> <<>>, iterations |-> S.optimizers[obj.j].iterations,
          m |-> S.optimizers[obj.j].m]

save_weights(S, a) == [n \in DOMAIN Tracked(a) |-> SavedValue(S, a, Tracked(a)[n])]

\* ckpt.restore: every tracked object takes the value saved under its key
load_weights(S, a, entries) ==
    LET D == Tracked(a)
        KeyOf(obj) == {n \in DOMAIN D \cap DOMAIN entries : D[n] = obj}
        ModelVal(j) ==
            LET ks == KeyOf([kind |-> "model", j |-> j])
            IN  IF ks = {} THEN WeightsOf(S, a, j) ELSE entries[CHOOSE n \in ks : TRUE].w
        OptVal(j) ==
            LET ks == KeyOf([kind |-> "optimizer", j |-> j])
            IN  IF ks = {} THEN S.optimizers[j]
                ELSE LET e == entries[CHOOSE n \in ks : TRUE]
                     IN  [iterations |-> e.iterations, m |-> e.m]
    IN  [S EXCEPT !.Qs = [j \in 1..a.Q_num |-> ModelVal(j)],
                  !.policy = ModelVal(a.Q_num + 1),
                  !.log_alpha = IF a.log_alpha = "auto"
                                THEN ModelVal(a.Q_num + 2)[1] ELSE S.log_alpha,
                  !.optimizers = [j \in 1..NumModels(a) |-> OptVal(j)]]

Call_save_weights ==
    /\ calls < MaxCalls
    /\ \E iteration \in 0..MaxIter :
          /\ ckpts' = [ckpts EXCEPT ![iteration] =
                          [entries |-> save_weights(Cur, args), at |-> Cur]]
          /\ last' = Call("save_weights", iteration, <<>>, "none", NoLogits)
    /\ calls' = calls + 1
    /\ UNCHANGED <<args, policy, policy_target, Qs, Q_targets, log_alpha, optimizers,
                   held, steps>>

Call_load_weights ==
    /\ calls < MaxCalls
    /\ \E iteration \in 0..MaxIter :
          IF ckpts[iteration].entries = <<>>
          THEN /\ last' = Call("load_weights", iteration, <<>>, "NotFoundError", NoLogits)
               /\ UNCHANGED <<policy, policy_target, Qs, Q_targets, log_alpha, optimizers>>
          ELSE /\ Install(load_weights(Cur, args, ckpts[iteration].entries))
               /\ last' = Call("load_weights", iteration, <<>>, "none", NoLogits)
    /\ calls' = calls + 1
    /\ UNCHANGED <<args, ckpts, held, steps>>

-----------------------------------------------------------------------------
(* compute_neglogp.  logits = self.policy(obs) is the output of the        *)
(* network on the batch: a matrix whose entries are finite, NaN or Inf.    *)

\* the all-finite output, and every output with one NaN or Inf entry
LogitMatrices ==
    {NoLogits} \cup
    {[NoLogits EXCEPT ![r][c] = x] : r \in BatchRows, c \in LogitCols, x \in NonFinite}

\* PolicyWithQs.compute_neglogp: no check between the forward pass and
\* act_dist.neglogp(act)
PolicyWithQs_compute_neglogp(logits) == "none"

\* PolicyWithValue.compute_neglogp: assert not np.isnan(logits[0][0])
PolicyWithValue_compute_neglogp(logits) ==
    IF logits[1][1] = "nan" THEN "AssertionError" ELSE "none"

Call_PolicyWithQs_compute_neglogp ==
    /\ calls < MaxCalls
    /\ \E logits \in LogitMatrices :
          last' = Call("PolicyWithQs.compute_neglogp", 0, <<>>,
                       PolicyWithQs_compute_neglogp(logits), logits)
    /\ calls' = calls + 1
    /\ UNCHANGED <<args, policy, policy_target, Qs, Q_targets, log_alpha, optimizers,
                   ckpts, held, steps>>

Call_PolicyWithValue_compute_neglogp ==
    /\ calls < MaxCalls
    /\ \E logits \in LogitMatrices :
          last' = Call("PolicyWithValue.compute_neglogp", 0, <<>>,
                       PolicyWithValue_compute_neglogp(logits), logits)
    /\ calls' = calls + 1
    /\ UNCHANGED <<args, policy, policy_target, Qs, Q_targets, log_alpha, optimizers,
                   ckpts, held, steps>>

-----------------------------------------------------------------------------
(* Specifications *)

\* every state-changing operation of PolicyWithQs
Next ==
    \/ Call_apply_gradients
    \/ Call_update_Q_targets
    \/ Call_update_policy_target
    \/ Call_get_weights
    \/ Call_set_weights
    \/ Call_save_weights
    \/ Call_load_weights

Spec == Init /\ [][Next]_vars

\* the training loop alone: gradient steps and target updates
NextApply ==
    \/ Call_apply_gradients
    \/ Call_update_Q_targets
    \/ Call_update_policy_target

SpecApply == Init /\ [][NextApply]_vars

\* the log-probability queries
NextNeglogp ==
    \/ Call_PolicyWithQs_compute_neglogp
    \/ Call_PolicyWithValue_compute_neglogp

SpecNeglogp == Init /\ [][NextNeglogp]_vars

-----------------------------------------------------------------------------
(* Properties *)

Applied == last.op = "apply_gradients"
Due == last.iteration % args.delay_update = 0
ExactLength == Len(last.grads) = Len(trainable_weights(last.pre, args))

\* the i-th contiguous block of NumTensors entries of the gradient vector
Block(grads, i) == PySlice(grads, (i - 1) * NumTensors, i * NumTensors)

\* C1: after apply_gradients with iteration % delay_update /= 0, every Qs[i]
\* is the result of one step of its own optimizer on its own block of the
\* gradient vector, and policy, policy_target, every Q_targets[i], log_alpha
\* and the policy and log_alpha optimizers are as they were before the call.
C1_NonDelayedCallStepsOnlyQs ==
    (Applied /\ ~Due) =>
        /\ policy = last.pre.policy
        /\ policy_target = last.pre.policy_target
        /\ Q_targets = last.pre.Q_targets
        /\ log_alpha = last.pre.log_alpha
        /\ \A j \in (args.Q_num + 1)..NumModels(args) :
              optimizers[j] = last.pre.optimizers[j]
        /\ \A i \in 1..args.Q_num :
              LET r == OptApply(last.pre.optimizers[i], Block(last.grads, i),
                                last.pre.Qs[i])
              IN  Qs[i] = r.weights /\ optimizers[i] = r.opt

C1_Witness ==
    /\ Applied /\ ~Due /\ ExactLength
    /\ args.log_alpha = "auto"
    /\ \A i \in 1..args.Q_num : Qs[i] # last.pre.Qs[i]
    /\ policy # policy_target

\* C2: after apply_gradients with iteration % delay_update = 0 (iteration 0
\* included) every Q_targets[i] is tau*Qs[i] + (1-tau)*Q_targets[i]_old with
\* Qs[i] the group after this call's optimizer step; on every other
\* iteration Q_targets is left as it was.
C2_TargetsBlendPostStepQs ==
    Applied =>
        IF Due
        THEN /\ \A i \in 1..args.Q_num :
                  LET r == OptApply(last.pre.optimizers[i], Block(last.grads, i),
                                    last.pre.Qs[i])
                  IN  /\ Qs[i] = r.weights
                      /\ \A k \in 1..NumTensors :
                            Q_targets[i][k] =
                              (args.tau[1] * r.weights[k]
                               + (args.tau[2] - args.tau[1]) * last.pre.Q_targets[i][k])
                              \div args.tau[2]
        ELSE Q_targets = last.pre.Q_targets

C2_Witness ==
    /\ Applied /\ Due /\ last.iteration = 0
    /\ args.Q_num = MaxQNum
    /\ args.tau[1] < args.tau[2]
    /\ \A i \in 1..args.Q_num :
          /\ Qs[i] # last.pre.Qs[i]
          /\ Q_targets[i] # last.pre.Q_targets[i]
          /\ Q_targets[i] # Qs[i]

\* C3: with Q_num = 2, delay_update = 1 and tau = 1.0, after one
\* apply_gradients call (with a gradient vector of the exact length) on a
\* fresh instance Q_targets[0] = Qs[0], Q_targets[1] = Qs[1] and
\* policy_target = policy.
C3_SingleCallTauOneEqualisesTargets ==
    (Applied /\ ExactLength /\ calls = 1 /\ args.Q_num = 2 /\ args.delay_update = 1
       /\ args.tau = <<1, 1>>) =>
        /\ Q_targets = Qs
        /\ policy_target = policy

\* C4: apply_gradients with a gradient vector whose length is not the number
\* of trainable parameters raises GradientShapeError and changes no group.
C4_LengthMismatchRaises ==
    (Applied /\ ~ExactLength) =>
        /\ last.raised = "GradientShapeError"
        /\ Cur = last.pre

\* C5: on a due iteration with a vector of the exact length, entry k of the
\* gradient vector is the one applied to entry k of trainable_weights: the
\* slot of that parameter advances by grads[k], every optimizer makes one
\* step, and every Q and log_alpha parameter moves against its own slot.
C5_EntryKGoesToParameterK ==
    (Applied /\ Due /\ ExactLength) =>
        /\ Len(FlatSlots(Cur, args)) = Len(last.grads)
        /\ \A k \in 1..Len(last.grads) :
              FlatSlots(Cur, args)[k] = FlatSlots(last.pre, args)[k] + last.grads[k]
        /\ \A j \in 1..NumModels(args) :
              optimizers[j].iterations = last.pre.optimizers[j].iterations + 1
        /\ \A k \in 1..Len(last.grads) :
              (k <= args.Q_num * NumTensors \/ k > (args.Q_num + 1) * NumTensors) =>
                  trainable_weights(Cur, args)[k]
                    = trainable_weights(last.pre, args)[k] - FlatSlots(Cur, args)[k]

C5_Witness ==
    /\ Applied /\ Due /\ ExactLength
    /\ args.Q_num = MaxQNum
    /\ args.log_alpha = "auto"
    /\ steps = 2
    /\ log_alpha # last.pre.log_alpha

\* the groups of the ensemble: policy, policy_target, every Qs[i], every
\* Q_targets[i], and log_alpha
Groups(S) == [policy |-> S.policy, policy_target |-> S.policy_target, Qs |-> S.Qs,
              Q_targets |-> S.Q_targets, log_alpha |-> S.log_alpha]

\* C6: set_weights(w), with w = get_weights() taken in state S, returns
\* every group (policy, policy_target, every Qs[i], every Q_targets[i],
\* log_alpha) to its value in S.
C6_SetWeightsRestoresEveryGroup ==
    last.op = "set_weights" => Groups(Cur) = Groups(held.at)

\* C7: right after construction Q_targets[i] = Qs[i] for every i,
\* policy_target = policy, and len(Qs) = len(Q_targets) = len(Q_optimizers)
\* = Q_num.
C7_FreshTargetsEqualSources ==
    last.op = "__init__" =>
        /\ Q_targets = Qs
        /\ policy_target = policy
        /\ Len(Qs) = args.Q_num
        /\ Len(Q_targets) = args.Q_num
        /\ Len(SubSeq(optimizers, 1, args.Q_num)) = args.Q_num

\* C8: update_policy_target() leaves policy as it was and sets
\* policy_target to tau*policy + (1-tau)*policy_target_old.
C8_PolicyTargetPolyak ==
    last.op = "update_policy_target" =>
        /\ policy = last.pre.policy
        /\ \A k \in 1..NumTensors :
              policy_target[k] =
                (args.tau[1] * last.pre.policy[k]
                 + (args.tau[2] - args.tau[1]) * last.pre.policy_target[k])
                \div args.tau[2]

\* C9: the checkpoint written by save_weights holds one entry for every
\* saved group and one for every optimizer, and a load_weights that finds
\* the checkpoint returns every group and every optimizer to its value at
\* save time.
C9_CheckpointRoundTrip ==
    /\ (last.op = "save_weights" =>
          Cardinality(DOMAIN ckpts[last.iteration].entries) = 2 * NumModels(args))
    /\ (last.op = "load_weights" /\ last.raised = "none" =>
          Cur = ckpts[last.iteration].at)

HasNonFinite(logits) == \E r \in BatchRows, c \in LogitCols : logits[r][c] \in NonFinite

\* C10: compute_neglogp of PolicyWithQs and of PolicyWithValue fails with an
\* error whenever the policy output holds a NaN or Inf in any row or column.
C10_NonFiniteOutputRejected ==
    (last.op \in {"PolicyWithQs.compute_neglogp", "PolicyWithValue.compute_neglogp"}
       /\ HasNonFinite(last.logits)) =>
        last.raised # "none"

\* the values the list returned by the last get_weights() holds when it is
\* read in the current state, entry by entry
SnapshotNow == [j \in 1..Len(held.w) |-> EntryValue(Cur, args, held.w[j])]

\* the values the groups it covers had when get_weights() was called
SnapshotThen == [j \in 1..Len(held.w) |-> WeightsOf(held.at, args, j)]

\* C11: a list returned by get_weights() keeps, for every group it covers
\* (the trainable log_alpha included), the values of the state in which it
\* was taken, whatever apply_gradients, update_Q_targets,
\* update_policy_target or set_weights calls follow.
C11_SnapshotDoesNotAliasLiveParameters ==
    held.w # <<>> => SnapshotNow = SnapshotThen

====
